---- MODULE Spec2Model ----
(***************************************************************************)
(* Bug tracker REST API: the JWT auth guard (protect, authorize,           *)
(* optionalAuth), the auth controller (signup, login, logout, getMe,       *)
(* updateProfile) and the bug routes, as state machines over the user      *)
(* store, the bug store and the wall clock; the response and validation    *)
(* utilities; and the browser client's AuthProvider and routes.            *)
(***************************************************************************)
EXTENDS Integers, Sequences, FiniteSets, TLC

VARIABLES
    users,      \* the User collection: id -> stored document
    nextId,     \* the next fresh ObjectId of the User collection
    now,        \* Date.now(), in milliseconds
    mw,         \* the middleware pipeline of the request being handled
    qs,         \* whether this build's Mongoose runs schema setters on query filters
    resp,       \* the auth API request handled last, with its response
    rq,         \* the auth API requests in flight, one per connection
    bugs,       \* the Bug collection: id -> document
    nextBugId,  \* the id the next created bug gets
    bres,       \* the bug API request handled last, with its response
    util,       \* the utility call made last, with its result
    client      \* the browser: localStorage, the AuthProvider's state, the route

bugVars == <<bugs, nextBugId, bres>>
otherVars == <<util, client>>
serverVars == <<users, nextId, now, mw, qs, resp, rq>>
vars == <<users, nextId, now, mw, qs, resp, rq, bugs, nextBugId, bres, util, client>>

(***************************************************************************)
(* Bounds of the model.                                                    *)
(***************************************************************************)
MaxUserId == 2
MaxTicks == 3         \* the clock advances in ticks of 500 ms
MaxIssueTicks == 1    \* tokens are issued during the first ticks
MaxInFlight == 2      \* auth API requests handled concurrently

(***************************************************************************)
(* Strings that the code transforms are sequences of characters.           *)
(***************************************************************************)
LowerChar(c) ==
    CASE c = "A" -> "a"
      [] c = "B" -> "b"
      [] c = "X" -> "x"
      [] OTHER -> c

toLowerCase(s) == [i \in 1..Len(s) |-> LowerChar(s[i])]

RECURSIVE trimStart(_)
trimStart(s) == IF Len(s) > 0 /\ Head(s) = " " THEN trimStart(Tail(s)) ELSE s

RECURSIVE trimEnd(_)
trimEnd(s) ==
    IF Len(s) > 0 /\ s[Len(s)] = " " THEN trimEnd(SubSeq(s, 1, Len(s) - 1)) ELSE s

trim(s) == trimEnd(trimStart(s))

(***************************************************************************)
(* jsonwebtoken.  A token is either a signed JWT or a string that is not   *)
(* one.  iat and exp are NumericDates: whole seconds.                      *)
(***************************************************************************)
ServerSecret == "JWT_SECRET"
OtherSecret == "not-our-secret"

NoToken == [kind |-> "undefined"]
GarbageToken(text) == [kind |-> "garbage", text |-> text]

\* jwt.sign(payload, key, {expiresIn: lifeMs + 'ms'}) at clock value atMs
JwtSign(id, atMs, lifeMs, key) ==
    LET iat == atMs \div 1000
    IN  [kind |-> "jwt", id |-> id, iat |-> iat,
         exp |-> (1000 * iat + lifeMs) \div 1000, key |-> key]

\* jwt.verify(token, secret) at clock value atMs: payload or the error thrown
JwtVerify(token, secret, atMs) ==
    IF token.kind # "jwt" THEN [ok |-> FALSE, name |-> "JsonWebTokenError"]
    ELSE IF token.key # secret THEN [ok |-> FALSE, name |-> "JsonWebTokenError"]
    ELSE IF atMs \div 1000 >= token.exp
         THEN [ok |-> FALSE, name |-> "TokenExpiredError"]
    ELSE [ok |-> TRUE, name |-> "", id |-> token.id]

(***************************************************************************)
(* The User collection.                                                    *)
(***************************************************************************)
NoUser == [none |-> TRUE]

\* the document a query returns: password is select:false unless asked for
Project(doc, withPassword) ==
    IF withPassword THEN doc
    ELSE [id |-> doc.id, name |-> doc.name, email |-> doc.email, role |-> doc.role]

\* User.findById(id).select(...): the document, null, or a thrown store error
findById(store, id, withPassword, fault) ==
    IF fault THEN [threw |-> TRUE, doc |-> NoUser]
    ELSE IF id \in DOMAIN store
         THEN [threw |-> FALSE, doc |-> Project(store[id], withPassword)]
    ELSE [threw |-> FALSE, doc |-> NoUser]

(***************************************************************************)
(* The request as the guards read it.                                      *)
(***************************************************************************)
NoHeader == [present |-> FALSE]
Header(scheme, rest) == [present |-> TRUE, scheme |-> scheme, rest |-> rest]
NoCookies == [parsed |-> FALSE]
Cookies(token) == [parsed |-> TRUE, token |-> token]

startsWithBearer(h) == h.scheme = "Bearer"

\* authorization.split(' ')[1]
splitSecond(h) == IF Len(h.rest) >= 1 THEN h.rest[1] ELSE NoToken

\* mutant: the cookie is consulted before the Authorization header
ExtractTokenCookieFirst(req) ==
    IF req.cookies.parsed /\ req.cookies.token # NoToken
    THEN req.cookies.token
    ELSE IF req.authorization.present /\ startsWithBearer(req.authorization)
         THEN splitSecond(req.authorization)
    ELSE NoToken

ExtractToken(req) ==
    IF req.authorization.present /\ startsWithBearer(req.authorization)
    THEN splitSecond(req.authorization)
    ELSE IF req.cookies.parsed /\ req.cookies.token # NoToken
         THEN req.cookies.token
    ELSE NoToken

(***************************************************************************)
(* What a middleware did with (req, res, next).                            *)
(***************************************************************************)
NoBody == [unsent |-> TRUE]
FailAndGoOn(status, text) ==
    [status |-> status, sends |-> 1, nexts |-> 1, user |-> NoUser,
     body |-> [success |-> FALSE, error |-> text]]

Fail(status, text) ==
    [status |-> status, sends |-> 1, nexts |-> 0, user |-> NoUser,
     body |-> [success |-> FALSE, error |-> text]]
Pass(user) ==
    [status |-> 0, sends |-> 0, nexts |-> 1, user |-> user, body |-> NoBody]

MsgNoToken == "Not authorized to access this route. Please login."
MsgUserNotFound == "User not found. Token may be invalid."
MsgExpired == "Token has expired. Please login again."
MsgInvalid == "Invalid token. Please login again."
MsgLoginFirst == "Not authorized. Please login first."

\* mutant: the catch block does not tell an expired token from an invalid one
ProtectCatchOneMessage(errorName) == Fail(401, MsgInvalid)

ProtectCatch(errorName) ==
    IF errorName = "TokenExpiredError" THEN Fail(401, MsgExpired)
    ELSE Fail(401, MsgInvalid)

\* mutant: the null check on the looked-up user is missing
ProtectLookupNoNullCheck(store, id, fault) ==
    LET found == findById(store, id, FALSE, fault)
    IN  IF found.threw THEN ProtectCatch("MongoError") ELSE Pass(found.doc)

ProtectLookup(store, id, fault) ==
    LET found == findById(store, id, FALSE, fault)
    IN  IF found.threw THEN ProtectCatch("MongoError")
        ELSE IF found.doc = NoUser THEN Fail(401, MsgUserNotFound)
        ELSE Pass(found.doc)

protect(req, store, atMs, fault) ==
    LET token == ExtractToken(req)
    IN  IF token = NoToken THEN Fail(401, MsgNoToken)
        ELSE LET decoded == JwtVerify(token, ServerSecret, atMs)
             IN  IF ~decoded.ok THEN ProtectCatch(decoded.name)
                 ELSE ProtectLookup(store, decoded.id, fault)

MsgRole(role) == "User role '" \o role \o "' is not authorized to access this route"

\* mutant: the role is compared ignoring letter case
authorizeIgnoreCase(roles, user) ==
    LET lower(r) == IF r = "Admin" THEN "admin" ELSE IF r = "User" THEN "user" ELSE r
    IN  IF user = NoUser THEN Fail(401, MsgLoginFirst)
        ELSE IF ~(\E i \in 1..Len(roles) : lower(roles[i]) = lower(user.role))
             THEN [Fail(403, MsgRole(user.role)) EXCEPT !.user = user]
        ELSE Pass(user)

authorize(roles, user) ==
    IF user = NoUser THEN Fail(401, MsgLoginFirst)
    ELSE IF ~(\E i \in 1..Len(roles) : roles[i] = user.role)
         THEN [Fail(403, MsgRole(user.role)) EXCEPT !.user = user]
    ELSE Pass(user)

\* mutant: a token that does not verify fails the request, as in protect
optionalAuthRejects(req, store, atMs, fault) ==
    LET token == ExtractToken(req)
    IN  IF token = NoToken THEN Pass(NoUser)
        ELSE LET decoded == JwtVerify(token, ServerSecret, atMs)
             IN  IF ~decoded.ok THEN ProtectCatch(decoded.name)
                 ELSE LET found == findById(store, decoded.id, FALSE, fault)
                      IN  IF found.threw THEN Pass(NoUser) ELSE Pass(found.doc)

optionalAuth(req, store, atMs, fault) ==
    LET token == ExtractToken(req)
    IN  IF token = NoToken THEN Pass(NoUser)
        ELSE LET decoded == JwtVerify(token, ServerSecret, atMs)
             IN  IF ~decoded.ok THEN Pass(NoUser)
                 ELSE LET found == findById(store, decoded.id, FALSE, fault)
                      IN  IF found.threw THEN Pass(NoUser) ELSE Pass(found.doc)

(***************************************************************************)
(* The User model: schema setters and validators, the pre-save hash, the   *)
(* unique index on email, comparePassword and generateAuthToken.           *)
(***************************************************************************)
Plain(text) == [alg |-> "plain", text |-> text]
BcryptHash(plain, salt) == [alg |-> "bcrypt", salt |-> salt, text |-> plain.text]

\* bcrypt.compare(candidate, stored)
comparePassword(candidate, stored) ==
    stored.alg = "bcrypt" /\ stored.text = candidate.text

\* the schema's setters on email: trim, lowercase
NormalizeEmail(email) == toLowerCase(trim(email))

EmailShaped(email) ==
    /\ \E i \in 2..(Len(email) - 1) : email[i] = "@"
    /\ \A i \in 1..Len(email) : email[i] # " "

Roles == {"user", "admin"}

RECURSIVE Join(_)
Join(msgs) ==
    IF Len(msgs) = 0 THEN ""
    ELSE IF Len(msgs) = 1 THEN msgs[1]
    ELSE msgs[1] \o ", " \o Join(Tail(msgs))

\* the schema's validators, run before the pre-save hook hashes the password:
\* the messages of the paths that fail
ValidationMessages(name, email, password, role) ==
    (IF Len(trim(name)) > 0 THEN <<>> ELSE <<"Please provide a name">>)
    \o (IF EmailShaped(NormalizeEmail(email)) THEN <<>>
        ELSE <<"Please provide a valid email">>)
    \o (IF Len(password.text) >= 6 THEN <<>>
        ELSE <<"Password must be at least 6 characters">>)
    \o (IF role \in Roles THEN <<>> ELSE <<"role is not a valid enum value">>)

ValidUserFields(name, email, password, role) ==
    ValidationMessages(name, email, password, role) = <<>>

EmailTaken(store, email, exceptId) ==
    \E i \in DOMAIN store : i # exceptId /\ store[i].email = email

\* User.create(fields): validate, hash, insert under the unique index
Create(store, id, name, email, password, role, salt) ==
    LET doc == [id |-> id, name |-> trim(name), email |-> NormalizeEmail(email),
                password |-> BcryptHash(password, salt), role |-> role]
    IN  IF ~ValidUserFields(name, email, password, role)
        THEN [err |-> "ValidationError", store |-> store, doc |-> NoUser,
              messages |-> Join(ValidationMessages(name, email, password, role))]
        ELSE IF EmailTaken(store, doc.email, id)
             THEN [err |-> "E11000", store |-> store, doc |-> NoUser, messages |-> ""]
        ELSE [err |-> "", store |-> (id :> doc) @@ store, doc |-> doc, messages |-> ""]

\* user.generateAuthToken(): jwt.sign({id, email, role}, secret, {expiresIn: '7d'})
JwtExpireMs == 604800000
generateAuthToken(doc, atMs) == JwtSign(doc.id, atMs, JwtExpireMs, ServerSecret)

(***************************************************************************)
(* Inputs of the guards.                                                   *)
(***************************************************************************)
EmailA == <<"a", "@", "x">>
EmailB == <<"b", "@", "x">>
NameT == <<"T">>
Password1 == Plain("password123")

UserIds == 1..MaxUserId
IssueTimes(atMs) == {t \in 0..atMs : t % 500 = 0 /\ t <= 500 * MaxIssueTicks}
Lifetimes == {1, 1000}

SignedTokens(atMs) ==
    {JwtSign(id, t, life, key) :
        id \in UserIds, t \in IssueTimes(atMs), life \in Lifetimes,
        key \in {ServerSecret, OtherSecret}}
Garbage == {GarbageToken("invalid-token"), GarbageToken("none")}
Tokens(atMs) == SignedTokens(atMs) \cup Garbage

Headers(atMs) ==
    {NoHeader, Header("Bearer", <<>>)}
        \cup {Header("Bearer", <<t>>) : t \in Tokens(atMs)}
        \cup {Header("InvalidFormat", <<t>>) : t \in SignedTokens(0)}
CookieJars(atMs) ==
    {NoCookies, Cookies(NoToken)} \cup {Cookies(t) : t \in Tokens(0)}
Requests(atMs) ==
    {[authorization |-> h, cookies |-> c] : h \in Headers(atMs), c \in CookieJars(atMs)}

RoleLists == {<<"admin">>, <<"user", "admin">>, <<"Admin">>, <<"User">>}

(***************************************************************************)
(* The guard pipeline of one request: optionalAuth or protect, then        *)
(* authorize(...roles) on the routes that restrict roles.                  *)
(***************************************************************************)
Idle == [stage |-> "idle"]

InitStore ==
    /\ users = <<>>
    /\ nextId = 1
    /\ now = 0
    /\ bugs = <<>>
    /\ nextBugId = 1
    /\ bres = [op |-> "none"]
    /\ util = [fn |-> "none"]
    /\ client = [open |-> FALSE, stored |-> NoToken]

NoRequest == [op |-> "none"]
Slots == 1..MaxInFlight

InitGuard ==
    /\ InitStore
    /\ mw = Idle
    /\ qs = TRUE
    /\ resp = NoRequest
    /\ rq = [s \in Slots |-> NoRequest]

\* User.create(...) as the middleware tests seed the collection
SeedUser ==
    /\ mw = Idle
    /\ nextId <= MaxUserId
    /\ \E email \in {EmailA, EmailB}, role \in Roles :
          LET r == Create(users, nextId, NameT, email, Password1, role, 1)
          IN  /\ r.err = ""
              /\ users' = r.store
              /\ nextId' = nextId + 1
    /\ UNCHANGED <<now, mw, qs, resp, rq>>
    /\ UNCHANGED bugVars
    /\ UNCHANGED otherVars

\* User.deleteMany({})
DeleteMany ==
    /\ mw = Idle
    /\ users # <<>>
    /\ users' = <<>>
    /\ UNCHANGED <<nextId, now, mw, qs, resp, rq>>
    /\ UNCHANGED bugVars
    /\ UNCHANGED otherVars

Tick ==
    /\ mw = Idle
    /\ now + 500 <= 500 * MaxTicks
    /\ now' = now + 500
    /\ UNCHANGED <<users, nextId, mw, qs, resp, rq>>
    /\ UNCHANGED bugVars
    /\ UNCHANGED otherVars

Receive ==
    /\ mw = Idle
    /\ \E req \in Requests(now), guard \in {"protect", "optionalAuth"},
          fault \in BOOLEAN :
          mw' = [stage |-> "recv", guard |-> guard, req |-> req, fault |-> fault]
    /\ UNCHANGED <<users, nextId, now, qs, resp, rq>>
    /\ UNCHANGED bugVars
    /\ UNCHANGED otherVars

RunProtect ==
    /\ mw.stage = "recv"
    /\ mw.guard = "protect"
    /\ mw' = [stage |-> "guarded", guard |-> mw.guard, req |-> mw.req,
              fault |-> mw.fault, at |-> now,
              out |-> protect(mw.req, users, now, mw.fault)]
    /\ UNCHANGED <<users, nextId, now, qs, resp, rq>>
    /\ UNCHANGED bugVars
    /\ UNCHANGED otherVars

RunOptionalAuth ==
    /\ mw.stage = "recv"
    /\ mw.guard = "optionalAuth"
    /\ mw' = [stage |-> "guarded", guard |-> mw.guard, req |-> mw.req,
              fault |-> mw.fault, at |-> now,
              out |-> optionalAuth(mw.req, users, now, mw.fault)]
    /\ UNCHANGED <<users, nextId, now, qs, resp, rq>>
    /\ UNCHANGED bugVars
    /\ UNCHANGED otherVars

\* the next middleware of the route, run when the guard called next()
RunAuthorize ==
    /\ mw.stage = "guarded"
    /\ mw.out.nexts = 1
    /\ \E roles \in RoleLists :
          mw' = [stage |-> "authorized", guard |-> mw.guard, req |-> mw.req,
                 fault |-> mw.fault, at |-> mw.at, roles |-> roles,
                 user |-> mw.out.user,
                 out |-> authorize(roles, mw.out.user)]
    /\ UNCHANGED <<users, nextId, now, qs, resp, rq>>
    /\ UNCHANGED bugVars
    /\ UNCHANGED otherVars

Finish ==
    /\ mw.stage \in {"guarded", "authorized"}
    /\ mw' = Idle
    /\ UNCHANGED <<users, nextId, now, qs, resp, rq>>
    /\ UNCHANGED bugVars
    /\ UNCHANGED otherVars

NextGuard ==
    \/ SeedUser
    \/ DeleteMany
    \/ Tick
    \/ Receive
    \/ RunProtect
    \/ RunOptionalAuth
    \/ RunAuthorize
    \/ Finish

SpecGuard == InitGuard /\ [][NextGuard]_vars

(***************************************************************************)
(* Properties of the guards.                                               *)
(***************************************************************************)
Guarded(guard) == mw.stage = "guarded" /\ mw.guard = guard

\* the triple the decision rests on, read off the request and the store
TokenOf(req) == ExtractToken(req)
Verdict(req, atMs) == JwtVerify(TokenOf(req), ServerSecret, atMs)
UserExists(id) == id \in DOMAIN users

FailureTexts ==
    <<"Not authorized to access this route. Please login.",
      "Invalid token. Please login again.",
      "Token has expired. Please login again.",
      "User not found. Token may be invalid.">>

Rejected(out, text) ==
    /\ out.status = 401
    /\ out.sends = 1
    /\ out.nexts = 0
    /\ out.user = NoUser
    /\ out.body.success = FALSE
    /\ out.body.error = text

Accepted(out, id) ==
    /\ out.sends = 0
    /\ out.nexts = 1
    /\ out.body = NoBody
    /\ out.user # NoUser
    /\ out.user.id = id
    /\ out.user.email = users[id].email
    /\ out.user.role = users[id].role

\* C1: protect's outcome is fixed by (token present?, verification result,
\* user exists?): no token -> Unauthenticated; malformed or wrongly signed
\* -> InvalidToken; expired -> TokenExpired; unknown user id -> UserNotFound;
\* otherwise the user is attached and next is called.  The four failures are
\* 401 with pairwise distinct texts, no next, no req.user.  (Requests during
\* which the store lookup itself throws are the subject of C17 and C28.)
C1_ProtectDecision ==
    (Guarded("protect") /\ ~mw.fault) =>
        LET tok == TokenOf(mw.req)
            v == Verdict(mw.req, mw.at)
        IN  /\ tok = NoToken => Rejected(mw.out, FailureTexts[1])
            /\ (tok # NoToken /\ ~v.ok /\ v.name = "JsonWebTokenError")
                  => Rejected(mw.out, FailureTexts[2])
            /\ (tok # NoToken /\ ~v.ok /\ v.name = "TokenExpiredError")
                  => Rejected(mw.out, FailureTexts[3])
            /\ (tok # NoToken /\ v.ok /\ ~UserExists(v.id))
                  => Rejected(mw.out, FailureTexts[4])
            /\ (tok # NoToken /\ v.ok /\ UserExists(v.id))
                  => Accepted(mw.out, v.id)
            /\ \A i, j \in 1..4 : i # j => FailureTexts[i] # FailureTexts[j]

\* C1 witness: protect has rejected a correctly signed, unexpired token whose
\* user id is not in the store while another user is stored.
C1_Witness ==
    /\ Guarded("protect")
    /\ ~mw.fault
    /\ TokenOf(mw.req) # NoToken
    /\ Verdict(mw.req, mw.at).ok
    /\ ~UserExists(Verdict(mw.req, mw.at).id)
    /\ users # <<>>
    /\ mw.out.status = 401

\* the token in "Authorization: Bearer <token>", if the request has that form
BearerToken(req) ==
    IF req.authorization.present /\ req.authorization.scheme = "Bearer"
          /\ Len(req.authorization.rest) = 1
    THEN req.authorization.rest[1]
    ELSE NoToken

IssuedAs(tok, id, t, life) == tok = JwtSign(id, t, life, ServerSecret)

\* C2 as stated: a correctly signed token issued at t with lifetime L for an
\* existing user is accepted at every time before t+L and rejected as expired
\* at every time >= t+L.
C2_AsClaimed ==
    (Guarded("protect") /\ ~mw.fault) =>
        \A id \in DOMAIN users, t \in IssueTimes(mw.at), life \in Lifetimes :
            IssuedAs(BearerToken(mw.req), id, t, life) =>
                /\ mw.at < t + life => Accepted(mw.out, id)
                /\ mw.at >= t + life => Rejected(mw.out, FailureTexts[3])

\* the expiry claim of a token issued at t (ms) with lifetime L (ms), in seconds
ExpiryClaim(t, life) == ((t \div 1000) * 1000 + life) \div 1000

\* C2 amended: the token is accepted exactly while the clock's whole second
\* is below its expiry claim floor(floor(t/1000) + L/1000), and from then on,
\* so at every time >= t+L, it is rejected as expired (401), never as invalid
\* and never accepted.
C2_ExpiryInSeconds ==
    (Guarded("protect") /\ ~mw.fault) =>
        \A id \in DOMAIN users, t \in IssueTimes(mw.at), life \in Lifetimes :
            IssuedAs(BearerToken(mw.req), id, t, life) =>
                /\ mw.at \div 1000 < ExpiryClaim(t, life) => Accepted(mw.out, id)
                /\ mw.at \div 1000 >= ExpiryClaim(t, life)
                      => Rejected(mw.out, FailureTexts[3])
                /\ mw.at >= t + life => Rejected(mw.out, FailureTexts[3])

\* C2 witness: a token of an existing user, issued at 500 ms with a lifetime
\* of 1000 ms, was presented at 1000 ms, before t+L, and rejected as expired.
C2_Witness ==
    /\ Guarded("protect")
    /\ ~mw.fault
    /\ \E id \in DOMAIN users : IssuedAs(BearerToken(mw.req), id, 500, 1000)
    /\ mw.at = 1000
    /\ Rejected(mw.out, FailureTexts[3])

HeaderOnly(req) == [authorization |-> req.authorization, cookies |-> NoCookies]
AsHeader(req) ==
    [authorization |-> Header("Bearer", <<req.cookies.token>>), cookies |-> NoCookies]
CookieToken(req) == IF req.cookies.parsed THEN req.cookies.token ELSE NoToken

Authenticates(tok, atMs) ==
    LET v == JwtVerify(tok, ServerSecret, atMs) IN tok # NoToken /\ v.ok /\ UserExists(v.id)

RunGuard(guard, req, atMs, fault) ==
    IF guard = "protect" THEN protect(req, users, atMs, fault)
    ELSE optionalAuth(req, users, atMs, fault)

\* C3: with both an "Authorization: Bearer <token>" header and a token cookie,
\* protect and optionalAuth decide by the header token alone (a valid header
\* with an invalid cookie authenticates, an invalid header with a valid cookie
\* is rejected by protect); with only the cookie token present, that token is
\* the one verified and a valid one authenticates.
C3_HeaderPrecedence ==
    (mw.stage = "guarded") =>
        LET h == BearerToken(mw.req)
            c == CookieToken(mw.req)
        IN  /\ (h # NoToken /\ c # NoToken) =>
                  /\ mw.out = RunGuard(mw.guard, HeaderOnly(mw.req), mw.at, mw.fault)
                  /\ (~mw.fault /\ Authenticates(h, mw.at))
                        => (mw.out.nexts = 1 /\ mw.out.user.id = h.id)
                  /\ (mw.guard = "protect" /\ ~Authenticates(h, mw.at))
                        => (mw.out.status = 401 /\ mw.out.nexts = 0)
                  /\ (mw.guard = "optionalAuth" /\ ~Authenticates(h, mw.at))
                        => mw.out.user = NoUser
            /\ (~mw.req.authorization.present /\ c # NoToken) =>
                  /\ mw.out = RunGuard(mw.guard, AsHeader(mw.req), mw.at, mw.fault)
                  /\ (~mw.fault /\ Authenticates(c, mw.at))
                        => (mw.out.nexts = 1 /\ mw.out.user.id = c.id)

\* C3 witness: protect has rejected a request whose header token is invalid
\* although its cookie token is valid for a stored user.
C3_Witness ==
    /\ Guarded("protect")
    /\ ~mw.fault
    /\ BearerToken(mw.req) # NoToken
    /\ ~Authenticates(BearerToken(mw.req), mw.at)
    /\ Authenticates(CookieToken(mw.req), mw.at)
    /\ mw.out.status = 401

\* C4: authorize(...roles): no identity attached -> 401, no next; role not
\* an exact, case-sensitive member of roles -> 403 naming the actual role,
\* no next; otherwise next is called and nothing is sent.
C4_Authorize ==
    (mw.stage = "authorized") =>
        LET member == \E i \in 1..Len(mw.roles) : mw.roles[i] = mw.user.role
        IN  /\ mw.user = NoUser =>
                  (mw.out.status = 401 /\ mw.out.sends = 1 /\ mw.out.nexts = 0)
            /\ (mw.user # NoUser /\ ~member) =>
                  /\ mw.out.status = 403
                  /\ mw.out.sends = 1
                  /\ mw.out.nexts = 0
                  /\ mw.user.role = "user" => mw.out.body.error =
                        "User role 'user' is not authorized to access this route"
                  /\ mw.user.role = "admin" => mw.out.body.error =
                        "User role 'admin' is not authorized to access this route"
            /\ (mw.user # NoUser /\ member) =>
                  (mw.out.sends = 0 /\ mw.out.nexts = 1 /\ mw.out.body = NoBody)

\* C4 witness: authorize('Admin') has answered 403 to a user whose role is
\* 'admin'.
C4_Witness ==
    /\ mw.stage = "authorized"
    /\ mw.roles = <<"Admin">>
    /\ mw.user # NoUser
    /\ mw.user.role = "admin"
    /\ mw.out.status = 403

\* C5: optionalAuth never fails a request: whatever the token, its validity,
\* its expiry, the user's existence and the store's failure, it sends nothing
\* and calls next exactly once; req.user is set iff a token is present,
\* verifies and resolves to an existing user.
C5_OptionalAuth ==
    Guarded("optionalAuth") =>
        /\ mw.out.sends = 0
        /\ mw.out.nexts = 1
        /\ mw.out.body = NoBody
        /\ (mw.out.user # NoUser) <=>
              (~mw.fault /\ Authenticates(TokenOf(mw.req), mw.at))
        /\ mw.out.user # NoUser => mw.out.user.id = TokenOf(mw.req).id

\* C5 witness: optionalAuth has let through a request with a valid token of a
\* stored user whose lookup failed in the store, leaving req.user unset.
C5_Witness ==
    /\ Guarded("optionalAuth")
    /\ mw.fault
    /\ Authenticates(TokenOf(mw.req), mw.at)
    /\ mw.out.nexts = 1
    /\ mw.out.user = NoUser

(***************************************************************************)
(* controllers/authController.js, behind the auth routes.                  *)
(***************************************************************************)
Absent == <<>>               \* a name or an email the body does not carry
NoPassword == Plain("")      \* a password the body does not carry

NoCookie == [set |-> FALSE]
SetCookie(value) == [set |-> TRUE, value |-> value]
Respond(status, body, cookie) == [status |-> status, body |-> body, cookie |-> cookie]
Err(status, text) == Respond(status, [success |-> FALSE, error |-> text], NoCookie)

\* the user object the handlers build for their responses
UserView(doc) == [id |-> doc.id, name |-> doc.name, email |-> doc.email, role |-> doc.role]
TokenData(doc, atMs) == [token |-> generateAuthToken(doc, atMs), user |-> UserView(doc)]

\* User.findOne({email}).select(...): the filter is cast through the schema's
\* setters when the build's Mongoose runs setters on queries
findOne(store, email, withPassword, fault, setters) ==
    LET key == IF setters THEN NormalizeEmail(email) ELSE email
        hits == {i \in DOMAIN store : store[i].email = key}
    IN  IF fault THEN [threw |-> TRUE, doc |-> NoUser]
        ELSE IF hits = {} THEN [threw |-> FALSE, doc |-> NoUser]
        ELSE [threw |-> FALSE,
              doc |-> Project(store[CHOOSE i \in hits : TRUE], withPassword)]

\* user.save(): validators on the modified paths, the pre-save hook hashing a
\* modified password, then the write of the modified paths under the unique index
Save(store, mem, salt) ==
    LET d == mem.doc
        msgs == (IF "name" \in mem.mod /\ Len(d.name) = 0
                 THEN <<"Please provide a name">> ELSE <<>>)
                \o (IF "email" \in mem.mod /\ ~EmailShaped(d.email)
                    THEN <<"Please provide a valid email">> ELSE <<>>)
        hashed == IF "password" \in mem.mod THEN BcryptHash(d.password, salt)
                  ELSE d.password
    IN  IF msgs # <<>>
        THEN [err |-> "ValidationError", store |-> store, messages |-> Join(msgs)]
        ELSE IF d.id \notin DOMAIN store
             THEN [err |-> "DocumentNotFoundError", store |-> store, messages |-> ""]
        ELSE IF "email" \in mem.mod /\ EmailTaken(store, d.email, d.id)
             THEN [err |-> "E11000", store |-> store, messages |-> ""]
        ELSE [err |-> "", messages |-> "",
              store |-> [store EXCEPT ![d.id] =
                  [id |-> d.id,
                   name |-> IF "name" \in mem.mod THEN d.name ELSE @.name,
                   email |-> IF "email" \in mem.mod THEN d.email ELSE @.email,
                   password |-> IF "password" \in mem.mod THEN hashed ELSE @.password,
                   role |-> @.role]]]

Stop(res) == [go |-> FALSE, res |-> res]

\* signup's catch block
SignupCatchNoDuplicateKey(err, messages) ==
    IF err = "ValidationError" THEN Err(400, messages)
    ELSE Err(500, "Error creating user. Please try again.")

SignupCatch(err, messages) ==
    IF err = "ValidationError" THEN Err(400, messages)
    ELSE IF err = "E11000" THEN Err(400, "Email already exists")
    ELSE Err(500, "Error creating user. Please try again.")

\* signup up to the answer of its lookup
SignupCheck(store, body, fault, setters) ==
    IF body.name = Absent \/ body.email = Absent \/ body.password = NoPassword
    THEN Stop(Err(400, "Please provide name, email, and password"))
    ELSE LET f == findOne(store, toLowerCase(body.email), FALSE,
                          fault = "findOne", setters)
         IN  IF f.threw THEN Stop(SignupCatch("MongoError", ""))
             ELSE IF f.doc # NoUser
                  THEN Stop(Err(400, "Email already exists. Please use a different email."))
             ELSE [go |-> TRUE]

\* signup from User.create on
SignupCreate(store, nid, body, salt, atMs, fault) ==
    LET r == Create(store, nid, body.name, body.email, body.password,
                    IF body.role = "" THEN "user" ELSE body.role, salt)
    IN  IF fault = "create"
        THEN [store |-> store, nid |-> nid, res |-> SignupCatch("MongoError", "")]
        ELSE IF r.err # ""
             THEN [store |-> store, nid |-> nid, res |-> SignupCatch(r.err, r.messages)]
        ELSE [store |-> r.store, nid |-> nid + 1,
              res |-> Respond(201, [success |-> TRUE, data |-> TokenData(r.doc, atMs)],
                              SetCookie(generateAuthToken(r.doc, atMs)))]

signup(store, nid, body, salt, atMs, fault, setters) ==
    LET c == SignupCheck(store, body, fault, setters)
    IN  IF c.go THEN SignupCreate(store, nid, body, salt, atMs, fault)
        ELSE [store |-> store, nid |-> nid, res |-> c.res]

\* login's answer when the lookup finds no user
LoginUnknownUserTold == Err(404, "User not found")
LoginUnknownUser == Err(401, "Invalid credentials")

login(store, body, atMs, fault, setters) ==
    IF body.email = Absent \/ body.password = NoPassword
    THEN Err(400, "Please provide email and password")
    ELSE LET f == findOne(store, toLowerCase(body.email), TRUE,
                          fault = "findOne", setters)
         IN  IF f.threw THEN Err(500, "Error logging in. Please try again.")
             ELSE IF f.doc = NoUser THEN LoginUnknownUser
             ELSE IF ~comparePassword(body.password, f.doc.password)
                  THEN Err(401, "Invalid credentials")
             ELSE Respond(200, [success |-> TRUE, data |-> TokenData(f.doc, atMs)],
                          SetCookie(generateAuthToken(f.doc, atMs)))

\* res.cookie('token', 'none', ...) comes first; reading req.user.email of an
\* undefined req.user throws into the catch block
logoutKeepsCookie(reqUser) ==
    Respond(200, [success |-> TRUE, data |-> <<>>, message |-> "Logged out successfully"],
            SetCookie(generateAuthToken(reqUser, 0)))

logout(reqUser) ==
    IF reqUser = NoUser
    THEN Respond(500, [success |-> FALSE, error |-> "Error logging out"],
                 SetCookie(GarbageToken("none")))
    ELSE Respond(200, [success |-> TRUE, data |-> <<>>,
                       message |-> "Logged out successfully"],
                 SetCookie(GarbageToken("none")))

getMeWithPassword(store, reqUser, fault) ==
    IF reqUser = NoUser THEN Err(500, "Error fetching user data")
    ELSE LET f == findById(store, reqUser.id, TRUE, fault = "findById")
         IN  IF f.threw THEN Err(500, "Error fetching user data")
             ELSE Respond(200, [success |-> TRUE, data |-> f.doc], NoCookie)

\* req.user.id of an undefined req.user throws into the catch block
getMe(store, reqUser, fault) ==
    IF reqUser = NoUser THEN Err(500, "Error fetching user data")
    ELSE LET f == findById(store, reqUser.id, FALSE, fault = "findById")
         IN  IF f.threw THEN Err(500, "Error fetching user data")
             ELSE Respond(200, [success |-> TRUE, data |-> f.doc], NoCookie)

\* updateProfile's catch block
UpdateCatch(err, messages) ==
    IF err = "ValidationError" THEN Err(400, messages)
    ELSE Err(500, "Error updating profile")

\* updateProfile up to user.save(): the document in memory and its modified paths
UpdateRead(store, reqUser, body, fault, setters) ==
    LET f == IF reqUser = NoUser THEN [threw |-> TRUE, doc |-> NoUser]
             ELSE findById(store, reqUser.id, TRUE, fault = "findById")
        user == f.doc
        changing == body.email # Absent /\ body.email # user.email
        e == IF changing
             THEN findOne(store, toLowerCase(body.email), FALSE,
                          fault = "findOne", setters)
             ELSE [threw |-> FALSE, doc |-> NoUser]
        doc == [id |-> user.id,
                name |-> IF body.name # Absent THEN trim(body.name) ELSE user.name,
                email |-> IF changing THEN NormalizeEmail(body.email) ELSE user.email,
                password |-> IF body.password # NoPassword THEN body.password
                             ELSE user.password,
                role |-> user.role]
        mod == {p \in {"name", "email"} : doc[p] # user[p]}
                   \cup (IF body.password # NoPassword THEN {"password"} ELSE {})
    IN  IF f.threw THEN Stop(UpdateCatch("MongoError", ""))
        ELSE IF user = NoUser THEN Stop(Err(404, "User not found"))
        ELSE IF e.threw THEN Stop(UpdateCatch("MongoError", ""))
        ELSE IF e.doc # NoUser THEN Stop(Err(400, "Email already in use"))
        ELSE IF body.password # NoPassword /\ Len(body.password.text) < 6
             THEN Stop(Err(400, "Password must be at least 6 characters"))
        ELSE [go |-> TRUE, mem |-> [doc |-> doc, mod |-> mod]]

\* updateProfile from user.save() on
UpdateSaveNothingWritten(store, mem, salt, atMs, fault) ==
    [store |-> store,
     res |-> Respond(200, [success |-> TRUE, data |-> TokenData(mem.doc, atMs)], NoCookie)]

UpdateSave(store, mem, salt, atMs, fault) ==
    LET r == Save(store, mem, salt)
    IN  IF fault = "save"
        THEN [store |-> store, res |-> UpdateCatch("MongoError", "")]
        ELSE IF r.err # ""
             THEN [store |-> store, res |-> UpdateCatch(r.err, r.messages)]
        ELSE [store |-> r.store,
              res |-> Respond(200, [success |-> TRUE, data |-> TokenData(mem.doc, atMs)],
                              NoCookie)]

updateProfile(store, reqUser, body, salt, atMs, fault, setters) ==
    LET u == UpdateRead(store, reqUser, body, fault, setters)
    IN  IF u.go THEN UpdateSave(store, u.mem, salt, atMs, fault)
        ELSE [store |-> store, res |-> u.res]

\* protect in front of logout, getMe and updateProfile
GuardCallsNextAnyway(req, store, atMs, fault) ==
    [protect(req, store, atMs, fault = "protect") EXCEPT !.nexts = 1]

Guard(req, store, atMs, fault) == protect(req, store, atMs, fault = "protect")
Refusal(p) == Respond(p.status, p.body, NoCookie)

(***************************************************************************)
(* Inputs of the auth API.                                                 *)
(***************************************************************************)
EmailAUpper == <<"A", "@", "x">>
EmailASpace == <<" ", "a", "@", "x">>
NameU == <<"U">>
Password2 == Plain("newpassword123")
ShortPassword == Plain("12345")
Salts == {1}

AuthEmails == {EmailA, EmailAUpper, EmailASpace, EmailB}
Plaintexts == {Password1, Password2, ShortPassword}

SignupBodies ==
    {[name |-> NameT, email |-> e, password |-> p, role |-> r] :
        e \in AuthEmails, p \in {Password1, ShortPassword}, r \in {"", "admin"}}
    \cup {[name |-> Absent, email |-> EmailA, password |-> Password1, role |-> ""],
          [name |-> NameT, email |-> Absent, password |-> Password1, role |-> ""],
          [name |-> NameT, email |-> EmailA, password |-> NoPassword, role |-> ""]}
LoginBodies ==
    {[email |-> e, password |-> p] :
        e \in AuthEmails \cup {Absent}, p \in {Password1, Password2, NoPassword}}
UpdateBodies ==
    {[name |-> n, email |-> e, password |-> p] :
        n \in {Absent, NameU}, e \in AuthEmails \cup {Absent},
        p \in {NoPassword, Password2, ShortPassword}}
Callers ==
    {[authorization |-> NoHeader, cookies |-> NoCookies]}
    \cup {[authorization |-> Header("Bearer", <<generateAuthToken([id |-> i], 0)>>),
           cookies |-> NoCookies] : i \in UserIds}

(***************************************************************************)
(* The auth API, one request at a time.                                    *)
(***************************************************************************)
InitAuth ==
    /\ InitStore
    /\ mw = Idle
    /\ qs \in BOOLEAN
    /\ resp = NoRequest
    /\ rq = [s \in Slots |-> NoRequest]

Signup ==
    /\ resp = NoRequest
    /\ \E body \in SignupBodies, salt \in Salts, fault \in {"none", "findOne", "create"} :
          LET r == signup(users, nextId, body, salt, now, fault, qs)
          IN  /\ users' = r.store
              /\ nextId' = r.nid
              /\ resp' = [op |-> "signup", body |-> body, fault |-> fault, res |-> r.res]
    /\ UNCHANGED <<now, mw, qs, rq>>
    /\ UNCHANGED bugVars
    /\ UNCHANGED otherVars

Login ==
    /\ resp = NoRequest
    /\ \E body \in LoginBodies, fault \in {"none", "findOne"} :
          resp' = [op |-> "login", body |-> body, fault |-> fault,
                   res |-> login(users, body, now, fault, qs)]
    /\ UNCHANGED <<users, nextId, now, mw, qs, rq>>
    /\ UNCHANGED bugVars
    /\ UNCHANGED otherVars

Logout ==
    /\ resp = NoRequest
    /\ \E req \in Callers, fault \in {"none", "protect"} :
          LET p == Guard(req, users, now, fault)
          IN  resp' = [op |-> "logout", req |-> req, fault |-> fault, user |-> p.user,
                       res |-> IF p.nexts = 1 THEN logout(p.user) ELSE Refusal(p)]
    /\ UNCHANGED <<users, nextId, now, mw, qs, rq>>
    /\ UNCHANGED bugVars
    /\ UNCHANGED otherVars

GetMe ==
    /\ resp = NoRequest
    /\ \E req \in Callers, fault \in {"none", "protect", "findById"} :
          LET p == Guard(req, users, now, fault)
          IN  resp' = [op |-> "getMe", req |-> req, fault |-> fault, user |-> p.user,
                       res |-> IF p.nexts = 1 THEN getMe(users, p.user, fault)
                               ELSE Refusal(p)]
    /\ UNCHANGED <<users, nextId, now, mw, qs, rq>>
    /\ UNCHANGED bugVars
    /\ UNCHANGED otherVars

UpdateProfile ==
    /\ resp = NoRequest
    /\ \E req \in Callers, body \in UpdateBodies, salt \in Salts,
          fault \in {"none", "protect", "findById", "findOne", "save"} :
          LET p == Guard(req, users, now, fault)
              r == IF p.nexts = 1
                   THEN updateProfile(users, p.user, body, salt, now, fault, qs)
                   ELSE [store |-> users, res |-> Refusal(p)]
          IN  /\ users' = r.store
              /\ resp' = [op |-> "updateProfile", req |-> req, body |-> body,
                          fault |-> fault, user |-> p.user, res |-> r.res]
    /\ UNCHANGED <<nextId, now, mw, qs, rq>>
    /\ UNCHANGED bugVars
    /\ UNCHANGED otherVars

Reset ==
    /\ resp # NoRequest
    /\ resp' = NoRequest
    /\ UNCHANGED <<users, nextId, now, mw, qs, rq>>
    /\ UNCHANGED bugVars
    /\ UNCHANGED otherVars

NextAuth ==
    \/ Signup
    \/ Login
    \/ Logout
    \/ GetMe
    \/ UpdateProfile
    \/ Reset

SpecAuth == InitAuth /\ [][NextAuth]_vars

(***************************************************************************)
(* The auth API with requests in flight together: a handler gives way to   *)
(* the others at each await on the store.                                  *)
(***************************************************************************)
ConcSignupBodies ==
    {[name |-> NameT, email |-> e, password |-> Password1, role |-> ""] :
        e \in {EmailA, EmailASpace, EmailB}}
ConcUpdateBodies ==
    {[name |-> Absent, email |-> e, password |-> NoPassword] :
        e \in {EmailA, EmailASpace, EmailB}}

\* a request arrives on the first idle connection
Arrives(s) ==
    /\ rq[s] = NoRequest
    /\ \A t \in Slots : t < s => rq[t] # NoRequest

\* who is the id of req.user, 0 when protect attached none
Done(op, who, body, res) ==
    [op |-> op, pc |-> "done", who |-> who, body |-> body, res |-> res]

\* Bookkeeping for the properties, on a signup in flight: rival is the id of
\* the user that a signup of the same email, in flight together with this one,
\* has created (0 while there is none); held tells whether that user still had
\* the email when this signup reached User.create.
SameEmail(b1, b2) == NormalizeEmail(b1.email) = NormalizeEmail(b2.email)
SignupDone(body, res, rival, held) ==
    [op |-> "signup", pc |-> "done", body |-> body, res |-> res,
     rival |-> rival, held |-> held]
Holds(store, id, email) ==
    id \in DOMAIN store /\ store[id].email = NormalizeEmail(email)

SignupStart(s) ==
    /\ Arrives(s)
    /\ \E body \in ConcSignupBodies :
          LET c == SignupCheck(users, body, "none", qs)
          IN  rq' = [rq EXCEPT ![s] =
                  IF c.go THEN [op |-> "signup", pc |-> "create", body |-> body,
                                rival |-> 0]
                  ELSE SignupDone(body, c.res, 0, FALSE)]
    /\ UNCHANGED <<users, nextId, now, mw, qs, resp>>
    /\ UNCHANGED bugVars
    /\ UNCHANGED otherVars

SignupFinish(s) ==
    /\ rq[s].op = "signup"
    /\ rq[s].pc = "create"
    /\ \E salt \in Salts :
          LET r == SignupCreate(users, nextId, rq[s].body, salt, now, "none")
          IN  /\ users' = r.store
              /\ nextId' = r.nid
              /\ rq' = [t \in Slots |->
                    IF t = s
                    THEN SignupDone(rq[s].body, r.res, rq[s].rival,
                                    Holds(users, rq[s].rival, rq[s].body.email))
                    ELSE IF /\ r.nid # nextId
                            /\ rq[t].op = "signup"
                            /\ rq[t].pc = "create"
                            /\ SameEmail(rq[t].body, rq[s].body)
                         THEN [rq[t] EXCEPT !.rival = nextId]
                    ELSE rq[t]]
    /\ UNCHANGED <<now, mw, qs, resp>>
    /\ UNCHANGED bugVars
    /\ UNCHANGED otherVars

UpdateStart(s) ==
    /\ Arrives(s)
    /\ \E req \in {c \in Callers : c.authorization.present}, body \in ConcUpdateBodies :
          LET p == Guard(req, users, now, "none")
              u == IF p.nexts = 1 THEN UpdateRead(users, p.user, body, "none", qs)
                   ELSE Stop(Refusal(p))
          IN  rq' = [rq EXCEPT ![s] =
                  IF u.go THEN [op |-> "updateProfile", pc |-> "save",
                                body |-> body, mem |-> u.mem]
                  ELSE Done("updateProfile", IF p.nexts = 1 THEN p.user.id ELSE 0,
                            body, u.res)]
    /\ UNCHANGED <<users, nextId, now, mw, qs, resp>>
    /\ UNCHANGED bugVars
    /\ UNCHANGED otherVars

UpdateFinish(s) ==
    /\ rq[s].op = "updateProfile"
    /\ rq[s].pc = "save"
    /\ \E salt \in Salts :
          LET r == UpdateSave(users, rq[s].mem, salt, now, "none")
          IN  /\ users' = r.store
              /\ rq' = [rq EXCEPT ![s] = Done("updateProfile", rq[s].mem.doc.id,
                                               rq[s].body, r.res)]
    /\ UNCHANGED <<nextId, now, mw, qs, resp>>
    /\ UNCHANGED bugVars
    /\ UNCHANGED otherVars

\* the response is flushed and the connection is idle again
Release(s) ==
    /\ rq[s] # NoRequest
    /\ rq[s].pc = "done"
    /\ rq' = [rq EXCEPT ![s] = NoRequest]
    /\ UNCHANGED <<users, nextId, now, mw, qs, resp>>
    /\ UNCHANGED bugVars
    /\ UNCHANGED otherVars

NextConc ==
    \/ \E s \in Slots : SignupStart(s)
    \/ \E s \in Slots : SignupFinish(s)
    \/ \E s \in Slots : UpdateStart(s)
    \/ \E s \in Slots : UpdateFinish(s)
    \/ \E s \in Slots : Release(s)

SpecConc == InitAuth /\ [][NextConc]_vars

(***************************************************************************)
(* Properties of the auth API.                                             *)
(***************************************************************************)
Registered(email) ==
    \E i \in DOMAIN users : users[i].email = NormalizeEmail(email)
WrongPasswordFor(email, password) ==
    \E i \in DOMAIN users :
        /\ users[i].email = NormalizeEmail(email)
        /\ users[i].password.text # password.text
InvalidCredentials ==
    [status |-> 401, body |-> [success |-> FALSE, error |-> "Invalid credentials"],
     cookie |-> [set |-> FALSE]]
CompleteLogins ==
    {b \in LoginBodies : b.email # Absent /\ b.password # NoPassword}

\* C6: a login with an unknown email and a login with a registered email but
\* a wrong password both answer 401 with the body {success: false, error:
\* 'Invalid credentials'} and set no cookie, so the two answers are equal and
\* the caller cannot tell whether the email is registered.
Refused(b) == ~Registered(b.email) \/ WrongPasswordFor(b.email, b.password)
C6_LoginIndistinguishable ==
    (/\ resp.op = "login"
     /\ resp.fault = "none"
     /\ resp.body \in CompleteLogins
     /\ Refused(resp.body))
    => /\ resp.res = InvalidCredentials
       /\ \A b \in CompleteLogins :
             Refused(b) => login(users, b, now, "none", qs) = resp.res

\* a login with a wrong password for a registered email was answered while
\* another email of the inputs is unknown
C6_Witness ==
    /\ resp.op = "login"
    /\ resp.fault = "none"
    /\ resp.body \in CompleteLogins
    /\ WrongPasswordFor(resp.body.email, resp.body.password)
    /\ resp.res.status = 401
    /\ \E b \in CompleteLogins : ~Registered(b.email)

HasPassword(v) == "password" \in DOMAIN v
BodyCarriesPassword(body) ==
    \/ HasPassword(body)
    \/ /\ "data" \in DOMAIN body
       /\ \/ HasPassword(body.data)
          \/ /\ "user" \in DOMAIN body.data
             /\ HasPassword(body.data.user)

\* C7: after any sequence of signup, login, logout, getMe and updateProfile
\* requests, every stored password is a hash different from each plaintext
\* the requests submit, and neither the response body nor the req.user that
\* protect attached carries a password field.
C7_PasswordNeverExposed ==
    /\ \A i \in DOMAIN users :
          /\ users[i].password \notin Plaintexts
          /\ users[i].password.alg = "bcrypt"
    /\ resp # NoRequest =>
          /\ ~BodyCarriesPassword(resp.res.body)
          /\ "user" \in DOMAIN resp => ~HasPassword(resp.user)

\* getMe answered 200 with the user's document after the user changed the
\* password through updateProfile
C7_Witness ==
    /\ resp.op = "getMe"
    /\ resp.res.status = 200
    /\ resp.user # NoUser
    /\ resp.res.body.data # NoUser
    /\ \E i \in DOMAIN users :
          /\ resp.res.body.data.id = i
          /\ users[i].password.text = Password2.text

UniqueEmails ==
    \A i, j \in DOMAIN users :
        i # j => NormalizeEmail(users[i].email) # NormalizeEmail(users[j].email)
RivalledSignup(s) ==
    /\ rq[s].op = "signup"
    /\ rq[s].pc = "done"
    /\ rq[s].rival # 0

MaxBugs == 2      \* bugs created in a run

BugFields == {"title", "description", "status", "priority", "severity", "createdBy"}
Statuses == {"open", "in-progress", "resolved", "closed"}
Priorities == {"low", "medium", "high", "critical"}
Severities == {"minor", "major", "critical"}

NoBug == [none |-> TRUE]
Has(body, f) == f \in DOMAIN body
FieldError(f, message) == <<[field |-> f, message |-> message]>>

\* a string field of the body: present when required, within its length
\* bounds after trimming
TextErrors(body, f, lo, hi) ==
    IF ~Has(body, f) THEN FieldError(f, "is required")
    ELSE IF Len(trim(body[f])) < lo \/ Len(trim(body[f])) > hi
         THEN FieldError(f, "has an invalid length")
    ELSE <<>>

\* an enumerated field of the body
EnumErrors(body, f, allowed, required) ==
    IF ~Has(body, f)
    THEN (IF required THEN FieldError(f, "is required") ELSE <<>>)
    ELSE IF body[f] \notin allowed THEN FieldError(f, "is not an allowed value")
    ELSE <<>>

BugErrors(body, statusRequired) ==
    TextErrors(body, "title", 3, 100)
    \o TextErrors(body, "description", 10, 1000)
    \o EnumErrors(body, "status", Statuses, statusRequired)
    \o EnumErrors(body, "priority", Priorities, TRUE)
    \o EnumErrors(body, "severity", Severities, TRUE)
    \o TextErrors(body, "createdBy", 2, 50)

createBugValidation(body) == BugErrors(body, FALSE)
updateBugValidation(body) == BugErrors(body, TRUE)
patchBugValidation(body) == EnumErrors(body, "status", Statuses, TRUE)
validateObjectId(param) ==
    IF param.wellFormed THEN <<>> ELSE FieldError("id", "Invalid ID format")

handleValidationErrors(errors) ==
    [status |-> 400,
     body |-> [success |-> FALSE, message |-> "Validation failed", errors |-> errors]]

BugNotFound == [status |-> 404, body |-> [success |-> FALSE, message |-> "Bug not found"]]
BugOk(status, doc) == [status |-> status, body |-> [success |-> TRUE, data |-> doc]]

\* the value a field is stored with: string fields are trimmed
StoredValue(f, v) ==
    IF f \in {"title", "description", "createdBy"} THEN trim(v) ELSE v

\* Bug.create(body): status defaults to open
createBug(store, id, body) ==
    LET doc == [f \in BugFields \cup {"id"} |->
                   IF f = "id" THEN id
                   ELSE IF Has(body, f) THEN StoredValue(f, body[f])
                   ELSE "open"]
    IN  [store |-> (id :> doc) @@ store, nid |-> id + 1, res |-> BugOk(201, doc)]

\* Bug.findByIdAndUpdate(id, body, {new: true, runValidators: true})
updateBug(store, id, body) ==
    IF id \notin DOMAIN store THEN [store |-> store, res |-> BugNotFound]
    ELSE LET doc == [f \in BugFields \cup {"id"} |->
                        IF f # "id" /\ Has(body, f) THEN StoredValue(f, body[f])
                        ELSE store[id][f]]
         IN  [store |-> [store EXCEPT ![id] = doc], res |-> BugOk(200, doc)]

\* Bug.findByIdAndUpdate(id, {status}, {new: true, runValidators: true})
patchBugFirstWriterWins(store, id, body) ==
    IF id \notin DOMAIN store THEN [store |-> store, res |-> BugNotFound]
    ELSE IF store[id].status \notin {"open", "closed"}
         THEN [store |-> store, res |-> BugOk(200, store[id])]
    ELSE LET doc == [store[id] EXCEPT !["status"] = body["status"]]
         IN  [store |-> [store EXCEPT ![id] = doc], res |-> BugOk(200, doc)]

patchBug(store, id, body) ==
    IF id \notin DOMAIN store THEN [store |-> store, res |-> BugNotFound]
    ELSE LET doc == [store[id] EXCEPT !["status"] = body["status"]]
         IN  [store |-> [store EXCEPT ![id] = doc], res |-> BugOk(200, doc)]

\* Bug.aggregate([{$group: {_id: '$field', count: {$sum: 1}}}]) turned into
\* an object: one key per value met, counted document by document
RECURSIVE Tally(_, _, _)
Tally(store, ids, f) ==
    IF ids = {} THEN <<>>
    ELSE LET i == CHOOSE j \in ids : TRUE
             rest == Tally(store, ids \ {i}, f)
             v == store[i][f]
         IN  [k \in DOMAIN rest \cup {v} |->
                 IF k = v THEN (IF v \in DOMAIN rest THEN rest[v] + 1 ELSE 1)
                 ELSE rest[k]]

\* mutant: every enumerated value is a key, with 0 for the values not met
TallyAllValues(store, ids, f) ==
    [k \in (CASE f = "status" -> Statuses [] f = "priority" -> Priorities
              [] f = "severity" -> Severities) |->
        Cardinality({i \in ids : store[i][f] = k})]

\* getBugStats: Bug.countDocuments() and the three breakdowns
getBugStatsAllValues(store) ==
    BugOk(200, [total |-> Cardinality(DOMAIN store),
                byStatus |-> TallyAllValues(store, DOMAIN store, "status"),
                byPriority |-> TallyAllValues(store, DOMAIN store, "priority"),
                bySeverity |-> TallyAllValues(store, DOMAIN store, "severity")])

getBugStats(store) ==
    BugOk(200, [total |-> Cardinality(DOMAIN store),
                byStatus |-> Tally(store, DOMAIN store, "status"),
                byPriority |-> Tally(store, DOMAIN store, "priority"),
                bySeverity |-> Tally(store, DOMAIN store, "severity")])

\* Bug.findByIdAndDelete(id)
deleteBug(store, id) ==
    IF id \notin DOMAIN store THEN [store |-> store, res |-> BugNotFound]
    ELSE LET rest == DOMAIN store \ {id}
         IN  [store |-> IF rest = {} THEN <<>> ELSE [i \in rest |-> store[i]],
              res |-> [status |-> 200,
                       body |-> [success |-> TRUE, data |-> <<>>,
                                 message |-> "Bug deleted successfully"]]]

\* router.post('/', createBugValidation, handleValidationErrors, createBug)
PostRouteUnvalidated(store, nid, body) == createBug(store, nid, body)

PostRoute(store, nid, body) ==
    LET errors == createBugValidation(body)
    IN  IF errors # <<>>
        THEN [store |-> store, nid |-> nid, res |-> handleValidationErrors(errors)]
        ELSE createBug(store, nid, body)

\* router.put('/:id', validateObjectId, updateBugValidation,
\*            handleValidationErrors, updateBug)
PutRouteUnvalidated(store, param, body) ==
    LET errors == validateObjectId(param)
    IN  IF errors # <<>> THEN [store |-> store, res |-> handleValidationErrors(errors)]
        ELSE updateBug(store, param.id, body)

PutRoute(store, param, body) ==
    LET errors == validateObjectId(param) \o updateBugValidation(body)
    IN  IF errors # <<>> THEN [store |-> store, res |-> handleValidationErrors(errors)]
        ELSE updateBug(store, param.id, body)

\* router.patch('/:id', validateObjectId, patchBugValidation,
\*              handleValidationErrors, patchBug)
PatchRouteFullValidation(store, param, body) ==
    LET errors == validateObjectId(param) \o updateBugValidation(body)
    IN  IF errors # <<>> THEN [store |-> store, res |-> handleValidationErrors(errors)]
        ELSE patchBug(store, param.id, body)

PatchRoute(store, param, body) ==
    LET errors == validateObjectId(param) \o patchBugValidation(body)
    IN  IF errors # <<>> THEN [store |-> store, res |-> handleValidationErrors(errors)]
        ELSE patchBug(store, param.id, body)

\* router.delete('/:id', validateObjectId, handleValidationErrors, deleteBug)
DeleteRouteWrongHandler(store, param) ==
    LET errors == validateObjectId(param)
    IN  IF errors # <<>> THEN [store |-> store, res |-> handleValidationErrors(errors)]
        ELSE IF param.id \notin DOMAIN store THEN [store |-> store, res |-> BugNotFound]
        ELSE [store |-> store, res |-> BugOk(200, store[param.id])]

DeleteRoute(store, param) ==
    LET errors == validateObjectId(param)
    IN  IF errors # <<>> THEN [store |-> store, res |-> handleValidationErrors(errors)]
        ELSE deleteBug(store, param.id)

\* Bug.findById(id)
getBugById(store, id) ==
    IF id \notin DOMAIN store THEN [store |-> store, res |-> BugNotFound]
    ELSE [store |-> store, res |-> BugOk(200, store[id])]

\* router.get('/:id', validateObjectId, handleValidationErrors, getBugById)
GetRoute(store, param) ==
    LET errors == validateObjectId(param)
    IN  IF errors # <<>> THEN [store |-> store, res |-> handleValidationErrors(errors)]
        ELSE getBugById(store, param.id)

(***************************************************************************)
(* Inputs of the bug API.                                                  *)
(***************************************************************************)
Text(n, c) == [i \in 1..n |-> c]

Restrict(body, fields) == [f \in fields |-> body[f]]

OriginalBug ==
    [title |-> Text(5, "o"), description |-> Text(10, "d"), status |-> "closed",
     priority |-> "low", severity |-> "minor", createdBy |-> Text(2, "o")]
UpdatedBug ==
    [title |-> Text(7, "u"), description |-> Text(12, "e"), status |-> "in-progress",
     priority |-> "high", severity |-> "critical", createdBy |-> Text(3, "u")]

\* a body with one enumerated field outside its set
Misvalued(body) ==
    {[body EXCEPT !.status = "invalid-status"],
     [body EXCEPT !.priority = "invalid-priority"],
     [body EXCEPT !.severity = "invalid-severity"]}

CreateBodies ==
    {OriginalBug, Restrict(OriginalBug, BugFields \ {"status"}),
     Restrict(OriginalBug, BugFields \ {"title"})}
    \cup Misvalued(OriginalBug)
BodyShapes ==
    {BugFields, {}} \cup {BugFields \ {f} : f \in BugFields} \cup {{f} : f \in BugFields}
PutBodies ==
    {Restrict(b, shape) :
        b \in {UpdatedBug, [UpdatedBug EXCEPT !.title = <<" ", "A", "B", " ">>],
               [UpdatedBug EXCEPT !.status = "resolved"]},
        shape \in BodyShapes}
    \cup Misvalued(UpdatedBug)
PatchBodies ==
    {[status |-> s] : s \in Statuses \cup {"invalid-status"}}
    \cup {<<>>, Restrict(UpdatedBug, {"title"}),
          [status |-> "resolved", title |-> UpdatedBug.title]}
Params ==
    {[wellFormed |-> TRUE, id |-> i] : i \in 1..(MaxBugs + 1)}
    \cup {[wellFormed |-> FALSE, id |-> 0]}
\* the credentials a bug request arrives with: none, or a bearer token
BugCallers ==
    {[authorization |-> NoHeader, cookies |-> NoCookies],
     [authorization |-> Header("Bearer", <<GarbageToken("invalid-token")>>),
      cookies |-> NoCookies]}

(***************************************************************************)
(* The bug API, one request at a time.                                     *)
(***************************************************************************)
StoredBug(param) ==
    IF param.wellFormed /\ param.id \in DOMAIN bugs THEN bugs[param.id] ELSE NoBug

PostBug ==
    /\ bres.op = "none"
    /\ nextBugId <= MaxBugs
    /\ \E req \in BugCallers, body \in CreateBodies :
          LET r == PostRoute(bugs, nextBugId, body)
          IN  /\ bugs' = r.store
              /\ nextBugId' = r.nid
              /\ bres' = [op |-> "post", req |-> req, body |-> body, res |-> r.res]
    /\ UNCHANGED <<users, nextId, now, mw, qs, resp, rq>>
    /\ UNCHANGED otherVars

PutBug ==
    /\ bres.op = "none"
    /\ \E req \in BugCallers, param \in Params, body \in PutBodies :
          LET r == PutRoute(bugs, param, body)
          IN  /\ bugs' = r.store
              /\ bres' = [op |-> "put", req |-> req, param |-> param, body |-> body,
                          before |-> StoredBug(param), res |-> r.res]
    /\ UNCHANGED <<users, nextId, now, mw, qs, resp, rq, nextBugId>>
    /\ UNCHANGED otherVars

PatchBug ==
    /\ bres.op = "none"
    /\ \E req \in BugCallers, param \in Params, body \in PatchBodies :
          LET r == PatchRoute(bugs, param, body)
          IN  /\ bugs' = r.store
              /\ bres' = [op |-> "patch", req |-> req, param |-> param, body |-> body,
                          before |-> StoredBug(param), res |-> r.res]
    /\ UNCHANGED <<users, nextId, now, mw, qs, resp, rq, nextBugId>>
    /\ UNCHANGED otherVars

DeleteBug ==
    /\ bres.op = "none"
    /\ \E req \in BugCallers, param \in Params :
          LET r == DeleteRoute(bugs, param)
          IN  /\ bugs' = r.store
              /\ bres' = [op |-> "delete", req |-> req, param |-> param,
                          before |-> StoredBug(param), res |-> r.res]
    /\ UNCHANGED <<users, nextId, now, mw, qs, resp, rq, nextBugId>>
    /\ UNCHANGED otherVars

GetBug ==
    /\ bres.op = "none"
    /\ \E req \in BugCallers, param \in Params :
          LET r == GetRoute(bugs, param)
          IN  /\ bugs' = r.store
              /\ bres' = [op |-> "get", req |-> req, param |-> param,
                          before |-> StoredBug(param), res |-> r.res]
    /\ UNCHANGED <<users, nextId, now, mw, qs, resp, rq, nextBugId>>
    /\ UNCHANGED otherVars

\* GET /api/bugs/stats
GetStats ==
    /\ bres.op = "none"
    /\ \E req \in BugCallers :
          bres' = [op |-> "stats", req |-> req, res |-> getBugStats(bugs)]
    /\ UNCHANGED <<users, nextId, now, mw, qs, resp, rq, bugs, nextBugId>>
    /\ UNCHANGED otherVars

BugDone ==
    /\ bres.op # "none"
    /\ bres' = [op |-> "none"]
    /\ UNCHANGED <<users, nextId, now, mw, qs, resp, rq, bugs, nextBugId>>
    /\ UNCHANGED otherVars

NextBug ==
    \/ PostBug
    \/ PutBug
    \/ PatchBug
    \/ DeleteBug
    \/ GetBug
    \/ GetStats
    \/ BugDone

SpecBug == InitGuard /\ [][NextBug]_vars

(***************************************************************************)
(* PATCH requests in flight together: the validators run when the request  *)
(* arrives, the controller then awaits the store's update of the document. *)
(***************************************************************************)
ConcPatchBodies == {[status |-> s] : s \in {"resolved", "in-progress", "invalid-status"}}

\* Bug.create(...) as the integration tests seed the collection
SeedBug ==
    /\ nextBugId <= MaxBugs
    /\ \A s \in Slots : rq[s] = NoRequest
    /\ LET r == createBug(bugs, nextBugId, OriginalBug)
       IN  /\ bugs' = r.store
           /\ nextBugId' = r.nid
    /\ UNCHANGED <<users, nextId, now, mw, qs, resp, rq, bres>>
    /\ UNCHANGED otherVars

\* the requests aim at the first bug, or at an id that no bug has
PatchStart(s) ==
    /\ Arrives(s)
    /\ \E param \in {q \in Params : q.id \in {1, nextBugId}}, body \in ConcPatchBodies :
          LET errors == validateObjectId(param) \o patchBugValidation(body)
          IN  rq' = [rq EXCEPT ![s] =
                  IF errors # <<>>
                  THEN [op |-> "patch", pc |-> "done", param |-> param, body |-> body,
                        res |-> handleValidationErrors(errors)]
                  ELSE [op |-> "patch", pc |-> "store", param |-> param, body |-> body]]
    /\ UNCHANGED <<users, nextId, now, mw, qs, resp>>
    /\ UNCHANGED bugVars
    /\ UNCHANGED otherVars

PatchFinish(s) ==
    /\ rq[s].op = "patch"
    /\ rq[s].pc = "store"
    /\ LET r == patchBug(bugs, rq[s].param.id, rq[s].body)
       IN  /\ bugs' = r.store
           /\ rq' = [rq EXCEPT ![s] =
                  [op |-> "patch", pc |-> "done", param |-> rq[s].param,
                   body |-> rq[s].body, res |-> r.res]]
    /\ UNCHANGED <<users, nextId, now, mw, qs, resp, nextBugId, bres>>
    /\ UNCHANGED otherVars

NextPatch ==
    \/ SeedBug
    \/ \E s \in Slots : PatchStart(s)
    \/ \E s \in Slots : PatchFinish(s)
    \/ \E s \in Slots : Release(s)

SpecPatch == InitGuard /\ [][NextPatch]_vars

(***************************************************************************)
(* Properties of the bug API.                                              *)
(***************************************************************************)
Untouched(b) ==
    IF b.before = NoBug THEN ~(b.param.wellFormed /\ b.param.id \in DOMAIN bugs)
    ELSE bugs[b.param.id] = b.before

C10_PatchStatusOnly ==
    (bres.op = "patch" /\ bres.before # NoBug)
    => IF "status" \in DOMAIN bres.body /\ bres.body.status \in Statuses
       THEN /\ bres.res.status = 200
            /\ bugs[bres.param.id].status = bres.body.status
            /\ \A f \in (BugFields \cup {"id"}) \ {"status"} :
                  bugs[bres.param.id][f] = bres.before[f]
       ELSE /\ bres.res.status = 400
            /\ bugs[bres.param.id] = bres.before

\* a resolved bug was reopened by a PATCH
C10_Witness ==
    /\ bres.op = "patch"
    /\ bres.before # NoBug
    /\ bres.before.status = "resolved"
    /\ bres.body = [status |-> "open"]
    /\ bres.res.status = 200
    /\ bugs[bres.param.id].status = "open"
    /\ bugs[bres.param.id].title = bres.before.title

(***************************************************************************)
(* The utilities: paginatedResponse (utils/apiResponse.js) and the bug     *)
(* validators (utils/validateBug.js).                                      *)
(***************************************************************************)
MaxPage == 4
MaxLimit == 3
MaxTotal == 7

\* Math.ceil(total / limit) for limit >= 1
CeilDiv(total, limit) ==
    IF total % limit = 0 THEN total \div limit ELSE (total \div limit) + 1

paginatedResponseFloor(data, page, limit, total, message) ==
    LET totalPages == total \div limit
    IN  [status |-> 200,
         body |-> [success |-> TRUE, message |-> message, data |-> data,
                   pagination |-> [currentPage |-> page, itemsPerPage |-> limit,
                                   totalItems |-> total, totalPages |-> totalPages,
                                   hasNextPage |-> page < totalPages,
                                   hasPreviousPage |-> page > 1]]]

paginatedResponse(data, page, limit, total, message) ==
    LET totalPages == CeilDiv(total, limit)
    IN  [status |-> 200,
         body |-> [success |-> TRUE, message |-> message, data |-> data,
                   pagination |-> [currentPage |-> page, itemsPerPage |-> limit,
                                   totalItems |-> total, totalPages |-> totalPages,
                                   hasNextPage |-> page < totalPages,
                                   hasPreviousPage |-> page > 1]]]

Valid == [isValid |-> TRUE, error |-> ""]
Invalid(text) == [isValid |-> FALSE, error |-> text]

\* validateTitle, validateDescription, validateCreatedBy on data[f]
validateText(data, f, label, lo, hi) ==
    IF ~Has(data, f) THEN Invalid(label \o " is required")
    ELSE IF data[f] = <<>> THEN Invalid(label \o " is required")
    ELSE IF Len(trim(data[f])) < lo THEN Invalid(label \o " is too short")
    ELSE IF Len(trim(data[f])) > hi THEN Invalid(label \o " is too long")
    ELSE Valid

\* validateStatus, validatePriority, validateSeverity on data[f]
validateEnum(data, f, label, allowed, required) ==
    IF ~Has(data, f) THEN (IF required THEN Invalid(label \o " is required") ELSE Valid)
    ELSE IF data[f] = "" THEN Invalid(label \o " is required")
    ELSE IF data[f] \notin allowed THEN Invalid(label \o " must be one of the allowed values")
    ELSE Valid

validateField(data, f) ==
    CASE f = "title" -> validateText(data, f, "Title", 3, 100)
      [] f = "description" -> validateText(data, f, "Description", 10, 1000)
      [] f = "status" -> validateEnum(data, f, "Status", Statuses, FALSE)
      [] f = "priority" -> validateEnum(data, f, "Priority", Priorities, TRUE)
      [] f = "severity" -> validateEnum(data, f, "Severity", Severities, TRUE)
      [] f = "createdBy" -> validateText(data, f, "Created by", 2, 50)

FieldOrder == <<"title", "description", "status", "priority", "severity", "createdBy">>

\* the errors of the fields FieldOrder[n..], each validator run on its own
RECURSIVE CollectErrors(_, _)
CollectErrors(data, n) ==
    IF n > Len(FieldOrder) THEN <<>>
    ELSE LET r == validateField(data, FieldOrder[n])
         IN  (IF r.isValid THEN <<>>
              ELSE <<[field |-> FieldOrder[n], message |-> r.error]>>)
             \o CollectErrors(data, n + 1)

\* mutant: the first failing field ends the validation
validateBugDataFirstError(data) ==
    LET all == CollectErrors(data, 1)
        errors == IF all = <<>> THEN <<>> ELSE <<all[1]>>
    IN  [isValid |-> errors = <<>>, errors |-> errors]

validateBugData(data) ==
    LET errors == CollectErrors(data, 1)
    IN  [isValid |-> errors = <<>>, errors |-> errors]

\* values of a text field: none, empty, too short, good, too long
TextValues(lo, hi) == {Text(0, "A"), Text(lo - 1, "A"), Text(lo, "A"), Text(hi + 1, "A")}
EnumInputs(allowed) == {"", "invalid"} \cup {CHOOSE v \in allowed : TRUE}
BugData ==
    {Restrict(d, shape) :
        d \in [title : TextValues(3, 100), description : {Text(5, "d"), Text(10, "d")},
               status : {"invalid", "open"}, priority : EnumInputs(Priorities),
               severity : EnumInputs(Severities), createdBy : {Text(0, "A"), Text(2, "A")}],
        shape \in {BugFields, BugFields \ {"status"}, {"title"}, {}}}

NoCall == [fn |-> "none"]

Paginate ==
    /\ util = NoCall
    /\ \E page \in 1..MaxPage, limit \in 1..MaxLimit, total \in 0..MaxTotal :
          util' = [fn |-> "paginatedResponse", page |-> page, limit |-> limit,
                   total |-> total,
                   out |-> paginatedResponse(<<>>, page, limit, total,
                                             "Data retrieved successfully")]
    /\ UNCHANGED <<serverVars, bugVars, client>>

Validate ==
    /\ util = NoCall
    /\ \E data \in BugData :
          util' = [fn |-> "validateBugData", data |-> data, out |-> validateBugData(data)]
    /\ UNCHANGED <<serverVars, bugVars, client>>

Return ==
    /\ util # NoCall
    /\ util' = NoCall
    /\ UNCHANGED <<serverVars, bugVars, client>>

NextUtil ==
    \/ Paginate
    \/ Validate
    \/ Return

SpecUtil == InitGuard /\ [][NextUtil]_vars

(***************************************************************************)
(* The browser client: App's routes, ProtectedRoute, and the AuthProvider  *)
(* with its initAuth effect, login, signup and logout. The API's answers   *)
(* are either outcome: fulfilled or rejected.                              *)
(***************************************************************************)
MaxPending == 2     \* logout calls awaiting POST /api/auth/logout

\* <Routes> of App: the element of the matching route
App(path) ==
    CASE path = "/" -> "BugBoard"
      [] path = "/stats" -> "Statistics"
      [] OTHER -> "nothing"

\* ProtectedRoute({children}) under useAuth()'s user and loading
ProtectedRoute(user, loading, children) ==
    IF loading THEN "Loading"
    ELSE IF user = NoUser THEN "Navigate to /login"
    ELSE children

\* jwtDecode(token): the payload, unverified, or a throw on what is no JWT
jwtDecode(token) ==
    IF token.kind # "jwt" THEN [threw |-> TRUE] ELSE [threw |-> FALSE, exp |-> token.exp]

\* the user object the API answers with, and a token the API issued to it
ApiUser(id) == [id |-> id, name |-> NameT, email |-> EmailA, role |-> "user"]
FreshToken(id) == generateAuthToken(ApiUser(id), 0)
\* what localStorage can hold when the page is opened
StoredTokens ==
    {NoToken, GarbageToken("invalid-token")}
        \cup {FreshToken(id) : id \in UserIds}
        \cup {JwtSign(id, 0, 1, ServerSecret) : id \in UserIds}

Closed(stored) == [open |-> FALSE, stored |-> stored]

\* logout() up to its await: with a token it posts and waits, without one
\* its finally block runs at once
CallLogout(c, token) ==
    IF token # NoToken THEN [c EXCEPT !.pending = @ + 1]
    ELSE [c EXCEPT !.token = NoToken, !.user = NoUser, !.stored = NoToken,
                   !.cleared = TRUE]

\* the page is opened at '/': AuthProvider mounts with the stored token and
\* initAuth runs up to its first await; sent is the token initAuth holds
Visit ==
    /\ ~client.open
    /\ LET t == client.stored
           c == [open |-> TRUE, stored |-> t, token |-> t, user |-> NoUser,
                 loading |-> TRUE, path |-> "/", view |-> App("/"),
                 init |-> "done", sent |-> t, pending |-> 0, cleared |-> FALSE]
       IN  client' =
              IF t = NoToken THEN [c EXCEPT !.loading = FALSE]
              ELSE IF jwtDecode(t).threw \/ jwtDecode(t).exp * 1000 < now
                   THEN [CallLogout(c, t) EXCEPT !.loading = FALSE]
              ELSE [c EXCEPT !.init = "me"]
    /\ UNCHANGED <<serverVars, bugVars, util>>

\* GET /api/auth/me settles: setUser(response.data.data), or the catch
\* block's logout() with the token initAuth started with; then setLoading(false)
MeSettles ==
    /\ client.open
    /\ client.init = "me"
    /\ \E ok \in BOOLEAN :
          client' =
             IF ok THEN [client EXCEPT !.user = ApiUser(client.sent.id),
                                       !.loading = FALSE, !.init = "done"]
             ELSE [CallLogout(client, client.sent) EXCEPT !.loading = FALSE,
                                                          !.init = "done"]
    /\ UNCHANGED <<serverVars, bugVars, util>>

\* a component calls logout()
ClientLogout ==
    /\ client.open
    /\ client.pending < MaxPending
    /\ client' = CallLogout(client, client.token)
    /\ UNCHANGED <<serverVars, bugVars, util>>

\* POST /api/auth/logout settles, fulfilled or rejected: the finally block
LogoutSettles ==
    /\ client.open
    /\ client.pending > 0
    /\ client' = [client EXCEPT !.token = NoToken, !.user = NoUser,
                                 !.stored = NoToken, !.pending = @ - 1,
                                 !.cleared = TRUE]
    /\ UNCHANGED <<serverVars, bugVars, util>>

\* login(credentials) or signup(userData) with its POST fulfilled: the two
\* differ in the URL only (a rejected POST changes nothing)
SignIn ==
    /\ client.open
    /\ \E id \in UserIds :
          client' = [client EXCEPT !.token = FreshToken(id), !.user = ApiUser(id),
                                   !.stored = FreshToken(id), !.cleared = FALSE]
    /\ UNCHANGED <<serverVars, bugVars, util>>

\* a link or a redirect changes the location
Navigate ==
    /\ client.open
    /\ \E path \in {"/", "/stats", "/login"} :
          /\ path # client.path
          /\ client' = [client EXCEPT !.path = path, !.view = App(path)]
    /\ UNCHANGED <<serverVars, bugVars, util>>

\* the tab is closed or reloaded: only localStorage survives
Leave ==
    /\ client.open
    /\ client' = Closed(client.stored)
    /\ UNCHANGED <<serverVars, bugVars, util>>

NextClient ==
    \/ Visit
    \/ MeSettles
    \/ ClientLogout
    \/ LogoutSettles
    \/ SignIn
    \/ Navigate
    \/ Leave

InitClient ==
    /\ users = <<>>
    /\ nextId = 1
    /\ now = 500 * MaxIssueTicks
    /\ mw = Idle
    /\ qs = TRUE
    /\ resp = NoRequest
    /\ rq = [s \in Slots |-> NoRequest]
    /\ bugs = <<>>
    /\ nextBugId = 1
    /\ bres = [op |-> "none"]
    /\ util = NoCall
    /\ client \in {Closed(t) : t \in StoredTokens}

SpecClient == InitClient /\ [][NextClient]_vars

ValidValue(f, v) ==
    CASE f = "title" -> Len(trim(v)) >= 3 /\ Len(trim(v)) <= 100
      [] f = "description" -> Len(trim(v)) >= 10 /\ Len(trim(v)) <= 1000
      [] f = "createdBy" -> Len(trim(v)) >= 2 /\ Len(trim(v)) <= 50
      [] f = "status" -> v \in Statuses
      [] f = "priority" -> v \in Priorities
      [] f = "severity" -> v \in Severities
AllValid(body) == \A f \in DOMAIN body : ValidValue(f, body[f])

\* C11 as stated: a PUT /api/bugs/:id on an existing bug whose body carries
\* some of the fields, all of them valid, answers 200, stores the supplied
\* fields and leaves the other fields as they were.
C11_AsClaimed ==
    (/\ bres.op = "put"
     /\ bres.before # NoBug
     /\ DOMAIN bres.body # {}
     /\ AllValid(bres.body))
    => /\ bres.res.status = 200
       /\ \A f \in BugFields :
             bugs[bres.param.id][f] =
                IF f \in DOMAIN bres.body THEN StoredValue(f, bres.body[f])
                ELSE bres.before[f]

Gone(b) == b.param.wellFormed /\ b.before = NoBug
ById == {"get", "put", "patch", "delete"}
BodyRefused(b) ==
    \/ b.op = "put" /\ updateBugValidation(b.body) # <<>>
    \/ b.op = "patch" /\ patchBugValidation(b.body) # <<>>
CreatedOpen ==
    (bres.op = "post" /\ bres.res.status = 201 /\ "status" \notin DOMAIN bres.body)
    => /\ bres.res.body.data.status = "open"
       /\ bugs[bres.res.body.data.id].status = "open"
DeleteRemoves ==
    (bres.op = "delete" /\ bres.res.status = 200)
    => bres.before # NoBug /\ bres.param.id \notin DOMAIN bugs
\* an id that was given out and is no longer stored stays unstored, and a
\* DELETE that finds no bug leaves the collection as it is
StaysDeleted ==
    /\ \A i \in 1..(nextBugId - 1) : i \notin DOMAIN bugs => i \notin DOMAIN bugs'
    /\ (bres.op = "none" /\ bres'.op = "delete" /\ bres'.before = NoBug) => bugs' = bugs

EnumFields == {"status", "priority", "severity"}
EnumValues(f) ==
    CASE f = "status" -> Statuses [] f = "priority" -> Priorities [] f = "severity" -> Severities
\* the enumerated fields the route reads from the body: PATCH reads status only
Accepted3(op) == IF op = "patch" THEN {"status"} ELSE EnumFields
CarriesBadValue(b) ==
    /\ b.op \in {"post", "put", "patch"}
    /\ \E f \in Accepted3(b.op) \cap DOMAIN b.body : b.body[f] \notin EnumValues(f)

C14_AsClaimed ==
    (/\ bres.op \in {"post", "put", "patch", "delete"}
     /\ protect(bres.req, users, now, FALSE).nexts = 0)
    => /\ bres.res.status = 401
       /\ bres.op # "post" => Untouched(bres)

Protected == {"logout", "getMe", "updateProfile"}
\* a request on a protected route that protect turns away is answered 401,
\* clears no cookie and changes no user
RefusedUntouched ==
    (/\ resp.op = "none"
     /\ resp'.op \in Protected
     /\ protect(resp'.req, users, now, resp'.fault = "protect").nexts = 0)
    => /\ resp'.user = NoUser
       /\ resp'.res.status = 401
       /\ ~resp'.res.cookie.set
       /\ users' = users

\* C15: logout, getMe and updateProfile run only after protect has attached
\* req.user; a request on them that protect turns away (no token, or a token
\* of no stored user) is answered 401, no cookie is cleared and no profile
\* changes; signup and login take no token: signup never answers 401 and
\* login answers 401 only for invalid credentials.
C15_ProtectedHandlers ==
    /\ [](/\ resp.op \in Protected
             => /\ (resp.user = NoUser) <=> (resp.res.status = 401)
                /\ resp.req.authorization = NoHeader => resp.user = NoUser
          /\ resp.op = "signup" => resp.res.status # 401
          /\ (resp.op = "login" /\ resp.res.status = 401) => resp.res = InvalidCredentials)
    /\ [][RefusedUntouched]_vars

\* an updateProfile asking for another email, sent without a token while a
\* user is stored, was answered 401
C15_Witness ==
    /\ resp.op = "updateProfile"
    /\ resp.req.authorization = NoHeader
    /\ resp.body.email = EmailB
    /\ resp.res.status = 401
    /\ DOMAIN users # {}

\* C16 as stated: an updateProfile of an authenticated caller whose requested
\* email, normalised, is registered to another user when the request is
\* answered, gets 400 and changes no record, whether the controller's lookup
\* or the unique index at save finds the conflict.
C16_AsClaimed ==
    [][\A s \in Slots :
          (/\ rq'[s] # rq[s]
           /\ rq'[s].op = "updateProfile"
           /\ rq'[s].pc = "done"
           /\ rq'[s].who # 0
           /\ EmailTaken(users, NormalizeEmail(rq'[s].body.email), rq'[s].who))
          => /\ rq'[s].res.status = 400
             /\ users' = users]_vars

Complete(body) ==
    /\ body.email # Absent
    /\ body.password # NoPassword
    /\ "name" \in DOMAIN body => body.name # Absent
TokenVerifies(req) ==
    /\ ExtractToken(req) # NoToken
    /\ JwtVerify(ExtractToken(req), ServerSecret, now).ok
\* the store call that the request's fault names was made, and threw (a
\* request that met a store failure leaves the collection as it was)
StoreThrew(r) ==
    \/ r.fault = "protect" /\ TokenVerifies(r.req)
    \/ r.op \in {"signup", "login"} /\ r.fault = "findOne"
          /\ Complete(r.body)
    \/ r.op = "signup" /\ r.fault = "create" /\ SignupCheck(users, r.body, "none", qs).go
    \/ r.op \in {"getMe", "updateProfile"} /\ r.fault = "findById" /\ r.user # NoUser
    \/ /\ r.op = "updateProfile"
       /\ r.fault = "findOne"
       /\ r.user # NoUser
       /\ r.body.email # Absent
       /\ r.body.email # users[r.user.id].email
    \/ /\ r.op = "updateProfile"
       /\ r.fault = "save"
       /\ r.user # NoUser
       /\ UpdateRead(users, r.user, r.body, "none", qs).go

\* C17 as stated: a request during which a call on the credential store
\* throws, in protect, signup, login, getMe or updateProfile, is answered 500.
C17_AsClaimed ==
    (resp.op # "none" /\ StoreThrew(resp)) => resp.res.status = 500

EnvelopeFields == {"success", "message", "data", "errors", "pagination"}
\* C19 as stated: every response body of protect and of the auth controller
\* has only the envelope's fields success, message, data, errors and
\* pagination, and a failure has success false and its text in message.
C19_AsClaimed ==
    resp.op # "none"
    => /\ DOMAIN resp.res.body \subseteq EnvelopeFields
       /\ resp.res.status >= 400
          => /\ resp.res.body.success = FALSE
             /\ "message" \in DOMAIN resp.res.body

\* C20: an updateProfile answered 200 whose body carries no password leaves
\* the stored hash as it was and a login with the old password still
\* succeeds; one whose body carries a password stores a hash of it, a login
\* with it succeeds and, when it differs from the old password, the hash has
\* changed and a login with the old password is answered 401; no other
\* request changes the hash of a stored user.
C20_HashFollowsPassword ==
    [][/\ (resp.op = "none" /\ resp'.op = "updateProfile" /\ resp'.res.status = 200)
          => LET id == resp'.user.id
                 old == users[id].password
                 new == resp'.body.password
                 Try(text) == login(users', [email |-> users'[id].email,
                                             password |-> Plain(text)],
                                    now', "none", qs).status
             IN  IF new = NoPassword
                 THEN users'[id].password = old /\ Try(old.text) = 200
                 ELSE /\ comparePassword(new, users'[id].password)
                      /\ Try(new.text) = 200
                      /\ new.text # old.text
                         => users'[id].password # old /\ Try(old.text) = 401
       /\ \A i \in DOMAIN users :
             users'[i].password # users[i].password
             => /\ resp'.op = "updateProfile"
                /\ resp'.user.id = i
                /\ resp'.body.password # NoPassword]_vars

\* a profile update that carried a new password was answered 200
C20_Witness ==
    /\ resp.op = "updateProfile"
    /\ resp.res.status = 200
    /\ resp.body.password = Password2
    /\ users[resp.user.id].password = BcryptHash(Password2, 1)

HeaderYieldsNoToken(req) ==
    \/ ~req.authorization.present
    \/ ~startsWithBearer(req.authorization)
    \/ req.authorization.rest = <<>>
CookieOnly(req) == [authorization |-> NoHeader, cookies |-> req.cookies]

\* C25 as stated: token extraction tries the Authorization header and then
\* the cookie and the first source that yields a non-empty token wins: when
\* the header is absent, has a scheme other than Bearer, or is 'Bearer' with
\* no token after it, and the cookie holds a token, protect and optionalAuth
\* decide as they decide on the cookie token alone.
C25_AsClaimed ==
    (/\ mw.stage = "guarded"
     /\ HeaderYieldsNoToken(mw.req)
     /\ mw.req.cookies.parsed
     /\ mw.req.cookies.token # NoToken)
    => mw.out = IF mw.guard = "protect"
                THEN protect(CookieOnly(mw.req), users, mw.at, mw.fault)
                ELSE optionalAuth(CookieOnly(mw.req), users, mw.at, mw.fault)

\* C28: every run of protect and of authorize ends either with next called
\* once and no response sent, or with one response sent and next not
\* called, also when the store fails during protect's user lookup.
C28_OneOutcome ==
    (\/ Guarded("protect")
     \/ mw.stage = "authorized")
    => \/ mw.out.nexts = 1 /\ mw.out.sends = 0 /\ mw.out.body = NoBody
       \/ mw.out.nexts = 0 /\ mw.out.sends = 1 /\ mw.out.body # NoBody

\* protect ran on a token that verifies while the store failed
C28_Witness ==
    /\ Guarded("protect")
    /\ mw.fault
    /\ Verdict(mw.req, mw.at).ok
    /\ mw.out.sends = 1
    /\ mw.out.nexts = 0

\* the request that presents a token in the Authorization header
Presenting(token) ==
    [authorization |-> Header("Bearer", <<token>>), cookies |-> NoCookies]

\* C29: a POST /api/auth/logout answered 200 changes no user and no decision
\* of protect: for every token, protect decides a request presenting it in
\* the Authorization header after the logout as it did before; the response
\* replaces the token cookie with 'none', which protect rejects.
C29_LogoutKeepsTokens ==
    [][(resp.op = "none" /\ resp'.op = "logout" /\ resp'.res.status = 200)
       => /\ users' = users
          /\ \A t \in Tokens(0) \cup {ExtractToken(resp'.req)} :
                protect(Presenting(t), users', now', FALSE)
                   = protect(Presenting(t), users, now, FALSE)
          /\ protect(Presenting(ExtractToken(resp'.req)), users', now', FALSE).nexts = 1
          /\ resp'.res.cookie = SetCookie(GarbageToken("none"))
          /\ protect([authorization |-> NoHeader,
                      cookies |-> Cookies(resp'.res.cookie.value)],
                     users', now', FALSE).status = 401]_vars

\* a logout was answered 200
C29_Witness ==
    /\ resp.op = "logout"
    /\ resp.res.status = 200
    /\ protect(resp.req, users, now, FALSE).nexts = 1

\* C30 as stated: an updateProfile whose email equals the caller's own
\* stored email up to letter case is not answered 400 'Email already in use'.
C30_AsClaimed ==
    (/\ resp.op = "updateProfile"
     /\ resp.user # NoUser
     /\ resp.body.email # Absent
     /\ toLowerCase(resp.body.email) = toLowerCase(resp.user.email))
    => resp.res # Err(400, "Email already in use")

RECURSIVE SumOver(_, _)
SumOver(m, keys) ==
    IF keys = {} THEN 0
    ELSE LET k == CHOOSE x \in keys : TRUE IN m[k] + SumOver(m, keys \ {k})
Breakdowns == <<"byStatus", "byPriority", "bySeverity">>

\* C23: after any sequence of create, update and delete requests the
\* statistics report total as the number of stored bugs; in byStatus,
\* byPriority and bySeverity every key present has a count of at least 1,
\* equal to the number of stored bugs with that value, and each mapping sums
\* to total; with no bug stored, total is 0 and the three mappings are empty.
C23_StatsCountStoredBugs ==
    bres.op = "stats"
    => LET d == bres.res.body.data
       IN  /\ bres.res.status = 200
           /\ d.total = Cardinality(DOMAIN bugs)
           /\ \A n \in 1..3 :
                 LET m == d[Breakdowns[n]]
                     f == <<"status", "priority", "severity">>[n]
                 IN  /\ \A k \in DOMAIN m :
                           /\ m[k] >= 1
                           /\ m[k] = Cardinality({i \in DOMAIN bugs : bugs[i][f] = k})
                     /\ SumOver(m, DOMAIN m) = d.total
                     /\ bugs = <<>> => m = <<>>

\* statistics were asked for with two bugs of different status stored
C23_Witness ==
    /\ bres.op = "stats"
    /\ bres.res.body.data.total = 2
    /\ DOMAIN bres.res.body.data.byStatus = {"open", "in-progress"}
    /\ DOMAIN bres.res.body.data.byPriority = {"low", "high"}

InFlightPatch(s) == rq[s].op = "patch" /\ rq[s].pc = "store"
\* the store's update of one PATCH request that finds its bug
Written(s) ==
    /\ InFlightPatch(s)
    /\ rq'[s].pc = "done"
    /\ rq[s].param.id \in DOMAIN bugs

\* C26: of PATCH requests with valid statuses in flight together against
\* one stored bug, each is answered 200 with the status it sent; each
\* update replaces the stored status by its own and leaves every other
\* field and every other bug as it was, so that the stored status is the
\* one written last; none is refused or changed because of the others.
C26_LastWriterWins ==
    [][\A s \in Slots :
          Written(s)
          => LET id == rq[s].param.id
             IN  /\ rq'[s].res.status = 200
                 /\ rq'[s].res.body.data.status = rq[s].body.status
                 /\ bugs'[id] = [bugs[id] EXCEPT !.status = rq[s].body.status]
                 /\ \A j \in DOMAIN bugs \ {id} : bugs'[j] = bugs[j]
                 /\ DOMAIN bugs' = DOMAIN bugs]_vars

\* two PATCH requests on bug 1 were in flight together, the one that
\* arrived first was written last, and both were answered 200
C26_Witness ==
    /\ rq[1].op = "patch"
    /\ rq[2].op = "patch"
    /\ rq[1].pc = "done"
    /\ rq[2].pc = "done"
    /\ rq[1].param.id = 1
    /\ rq[2].param.id = 1
    /\ rq[1].res.status = 200
    /\ rq[2].res.status = 200
    /\ rq[1].body.status = "resolved"
    /\ rq[2].body.status = "in-progress"
    /\ rq[2].res.body.data.status = "in-progress"
    /\ bugs[1].status = "resolved"

\* C22: for every page >= 1, limit >= 1 and total >= 0, paginatedResponse
\* reports as totalPages the least number of pages of limit items that hold
\* total items, hasNextPage exactly when page < totalPages and
\* hasPreviousPage exactly when page > 1; with total 0 it reports totalPages
\* 0 and hasNextPage false.
C22_PaginationMetadata ==
    util.fn = "paginatedResponse"
    => LET p == util.out.body.pagination
       IN  /\ p.totalPages * util.limit >= util.total
           /\ (p.totalPages - 1) * util.limit < util.total \/ util.total = 0
           /\ p.totalPages >= 0
           /\ p.hasNextPage = (util.page < p.totalPages)
           /\ p.hasPreviousPage = (util.page > 1)
           /\ util.total = 0 => p.totalPages = 0 /\ p.hasNextPage = FALSE
           /\ p.currentPage = util.page /\ p.itemsPerPage = util.limit
           /\ p.totalItems = util.total

\* the last, partly filled page of several was asked for
C22_Witness ==
    /\ util.fn = "paginatedResponse"
    /\ util.total % util.limit # 0
    /\ util.out.body.pagination.totalPages = util.page
    /\ util.page > 1
    /\ ~util.out.body.pagination.hasNextPage

\* the field's own validator fails on the data
FieldFails(data, f) ==
    IF f \in DOMAIN data THEN ~ValidValue(f, data[f]) ELSE f # "status"
ErrorsOn(out, f) == {n \in 1..Len(out.errors) : out.errors[n].field = f}

\* C24: validateBugData reports one error for each of title, description,
\* status, priority, severity and createdBy whose own validator fails and
\* none for the others, whatever the other fields are, and isValid is true
\* exactly when the list of errors is empty.
C24_AllErrorsCollected ==
    util.fn = "validateBugData"
    => /\ \A f \in BugFields :
             Cardinality(ErrorsOn(util.out, f)) = IF FieldFails(util.data, f) THEN 1 ELSE 0
       /\ \A n \in 1..Len(util.out.errors) : util.out.errors[n].field \in BugFields
       /\ util.out.isValid <=> (util.out.errors = <<>>)

\* data whose title, description, priority, severity and createdBy all fail
C24_Witness ==
    /\ util.fn = "validateBugData"
    /\ DOMAIN util.data = BugFields \ {"status"}
    /\ Len(util.out.errors) = 5
    /\ ~util.out.isValid

\* C21 as stated: at '/' the client renders what ProtectedRoute lets
\* through: the protected content only when auth initialisation has
\* finished (loading is false) and a user is set, never for a visitor
\* without a stored token, who is sent to /login instead.
C21_AsClaimed ==
    (client.open /\ client.path = "/")
    => /\ client.view = "BugBoard"
          => /\ ~client.loading
             /\ client.user # NoUser
             /\ ProtectedRoute(client.user, client.loading, "BugBoard") = "BugBoard"
       /\ (client.stored = NoToken /\ client.user = NoUser) => client.view # "BugBoard"

\* C27 as stated: once a logout() has finished, token and user are null and
\* localStorage holds no token, whether or not the logout call succeeded,
\* until a later login() or signup() succeeds, also when the initAuth
\* request to /api/auth/me was still in flight when logout ran.
C27_AsClaimed ==
    (client.open /\ client.cleared)
    => /\ client.token = NoToken
       /\ client.user = NoUser
       /\ client.stored = NoToken

============================================================================
